---- MODULE Spec2Model ----
(***************************************************************************)
(* Model of xlib's weak pointer (base/weak_ptr.h, namespace xcpp):         *)
(* WeakPtr<T>, WeakPtrFactory, SupportsWeakPtr, internal::Flag and         *)
(* internal::ThreadingChecker, with base/uintptr_cast.h.                   *)
(*                                                                         *)
(* A subject is an object owned through std::shared_ptr whose class        *)
(* derives from SupportsWeakPtr (the mixin, with a token and a flag of its *)
(* own) and that has a WeakPtrFactory (with another token and flag), as a  *)
(* member or held outside.  A handle is a WeakPtr<T>.  A sequence is a     *)
(* thread (std::thread::id).  The build is either the checking one (DEBUG: *)
(* Threading = ThreadingChecker<std::mutex>) or the permissive one         *)
(* (Threading = ThreadingChecker<void>); assert is active in both.         *)
(***************************************************************************)
EXTENDS Integers, Sequences, FiniteSets

VARIABLES
  build,        \* "checking" | "permissive": which default Threading the build selects
  owned,        \* owned[s]: some std::shared_ptr still owns subject s
  factory,      \* factory[s]: members threading_ and ref_ of the WeakPtrFactory of s
  mixin,        \* mixin[s]: members threading_ and ref_ of the SupportsWeakPtr base of s
  tokens,       \* tokens[t]: the ThreadingChecker object with id t
  handles,      \* the WeakPtr<T> objects of the program
  invCount,     \* history: number of InvalidateWeakPtrs() calls on the factory of s
  call,         \* call[q]: position of thread q inside WeakPtr::get()
  aborted,      \* an assert failed: the process is gone
  last          \* the operation that completed last, with what it returned

vars == <<build, owned, factory, mixin, tokens, handles,
          invCount, call, aborted, last>>

----------------------------------------------------------------------------
(* Bounds of the model *)
MaxHandles == 2
MaxInvalidates == 2

(* nullptr, std::thread::id(), an empty handle's address *)
Null == 0

(* The subjects and the threads of the run *)
Subjects == {1, 2}
Seqs == {1, 2}

(* The thread that constructed the subjects *)
MainSeq == CHOOSE q \in Seqs : \A r \in Seqs : q <= r

(* Name of the k-th token std::make_shared<Threading>() made for the       *)
(* factory of subject s (k = 0 at construction): every call yields an      *)
(* object of its own.                                                      *)
TokId(s, k) == s + k * Cardinality(Subjects)

(* Name of the token the SupportsWeakPtr base of s made at construction *)
MixinTokId(s) == TokId(s, MaxInvalidates + 1)

TokIds == {TokId(s, k) : s \in Subjects, k \in 0..(MaxInvalidates + 1)}
Builds == {"checking", "permissive"}

(* Names of the flags Flag::GetRef() made for the factory and for the      *)
(* SupportsWeakPtr base of subject s                                       *)
FactoryFlag(s) == s
MixinFlag(s) == s + Cardinality(Subjects)
FlagIds == {FactoryFlag(s) : s \in Subjects} \cup {MixinFlag(s) : s \in Subjects}

(* Address of subject s: what std::shared_ptr<T>::get() yields for it. *)
Address(s) == 100 + s

(* The members threading_ and ref_ of a WeakPtrFactory or SupportsWeakPtr  *)
(* that was destroyed                                                      *)
Gone == [threading_ |-> Null, ref_ |-> Null]

(* The WeakPtrFactory of s exists; the SupportsWeakPtr base of s exists.   *)
(* threading_ is never null in an object that exists.                      *)
FactoryAlive(s) == factory[s].threading_ # Null
MixinAlive(s) == mixin[s].threading_ # Null

----------------------------------------------------------------------------
(* internal::ThreadingChecker *)

(* Slot of a token that was never allocated or whose last owner is gone. *)
DeadTok == [valid |-> Null, creator |-> Null, st |-> "none", mutex |-> Null]

(* Variant: a checker is built unbound. *)
InitialValidThreadId_Unbound(q) == Null

(* valid_thread_id_ { std::this_thread::get_id() } of a checker built on q. *)
InitialValidThreadId(q) == q

(* std::make_shared<Threading>() run by thread q.  ThreadingChecker<void>   *)
(* has no valid_thread_id_ member.  mutex is the thread that holds mutex_  *)
(* (Null: unlocked).  creator and st are history.                          *)
NewToken(q) ==
  [valid   |-> IF build = "checking" THEN InitialValidThreadId(q) ELSE Null,
   creator |-> q,
   st      |-> "fresh",
   mutex   |-> Null]

(* Variant: the permissive checker records and compares threads. *)
CalledOnValidSequenceVoid_Checks(tk, q) ==
  IF tk.valid = Null
    THEN [ok |-> TRUE, valid |-> q]
    ELSE [ok |-> (tk.valid = q), valid |-> tk.valid]

(* ThreadingChecker<void>::CalledOnValidSequence *)
CalledOnValidSequenceVoid(tk, q) == [ok |-> TRUE, valid |-> tk.valid]

(* Variant: a check on another thread rebinds the checker to it. *)
CalledOnValidSequenceMutex_Rebind(tk, q) == [ok |-> TRUE, valid |-> q]

(* ThreadingChecker<std::mutex>::CalledOnValidSequence, under mutex_ *)
CalledOnValidSequenceMutex(tk, q) ==
  IF tk.valid = Null
    THEN [ok |-> TRUE, valid |-> q]
    ELSE [ok |-> (tk.valid = q), valid |-> tk.valid]

(* checker->CalledOnValidSequence(): virtual dispatch on the token's type *)
CalledOnValidSequence(tk, q) ==
  IF build = "checking" THEN CalledOnValidSequenceMutex(tk, q)
                        ELSE CalledOnValidSequenceVoid(tk, q)

(* ThreadingChecker<void>::DetachFromSequence *)
DetachFromSequenceVoid(tk) == tk

(* Variant: detaching leaves the recorded thread in place. *)
DetachFromSequenceMutex_Keep(tk) == tk

(* ThreadingChecker<std::mutex>::DetachFromSequence, under mutex_ *)
DetachFromSequenceMutex(tk) == [tk EXCEPT !.valid = Null]

(* threading_->DetachFromSequence(): virtual dispatch on the token's type *)
DetachFromSequence(tk) ==
  IF build = "checking" THEN DetachFromSequenceMutex(tk)
                        ELSE DetachFromSequenceVoid(tk)

(* History kept with a token: st says what touched it last ("fresh":       *)
(* nothing since construction, "checked": a check that passed, "detached": *)
(* a detach); creator is the constructing thread while the token is fresh. *)
Touched(tk, how) == [tk EXCEPT !.st = how, !.creator = Null]

(* The token after a check with outcome c passed.  The history records    *)
(* the checks of ThreadingChecker<std::mutex> only:                        *)
(* ThreadingChecker<void>::CalledOnValidSequence is `return true;`.        *)
Checked(tk, c) ==
  IF build = "checking" THEN Touched([tk EXCEPT !.valid = c.valid], "checked")
                        ELSE [tk EXCEPT !.valid = c.valid]

----------------------------------------------------------------------------
(* Shared ownership *)

(* Strong owners of token t: the threading_ of a factory, the threading_   *)
(* of a SupportsWeakPtr base, and the `checker` locals of the get() calls  *)
(* in progress.                                                            *)
TokAliveIn(t, fac, mix, cl) ==
  \/ \E s \in Subjects : fac[s].threading_ = t
  \/ \E s \in Subjects : mix[s].threading_ = t
  \/ \E q \in Seqs : cl[q].checker = t

TokAlive(t) == TokAliveIn(t, factory, mixin, call)

(* Variant: only a handle without a token counts as expired. *)
Expired_OnlyNull(t) == t = Null

(* std::weak_ptr<ThreadingChecker>::expired() *)
Expired(t) == t = Null \/ ~TokAlive(t)

(* The token table once every token without an owner has been destroyed. *)
Sweep(tk, fac, mix, cl) ==
  [t \in TokIds |-> IF TokAliveIn(t, fac, mix, cl) THEN tk[t] ELSE DeadTok]

(* std::shared_ptr<Flag>::use_count() of flag f, the caller's copy aside:  *)
(* the ref_ of factories, of SupportsWeakPtr bases and of handles.         *)
UseCount(f) ==
  Cardinality({s \in Subjects : factory[s].ref_ = f})
  + Cardinality({s \in Subjects : mixin[s].ref_ = f})
  + Cardinality({h \in 1..Len(handles) : handles[h].ref = f})

(* internal::Flag::HasRefs: flag.lock() makes `ref` one more owner of the  *)
(* flag while use_count() is read.                                         *)
HasRefs(f) ==
  IF f = Null THEN FALSE
  ELSE 1 # UseCount(f) + 1

----------------------------------------------------------------------------
(* Static types and uintptr_cast *)

(* The T of WeakPtr<T>: a polymorphic class B, a class D deriving from B   *)
(* and from SupportsWeakPtr<D>, a class U related to neither, and void.    *)
Types == {"B", "D", "U", "void"}
ConcreteTypes == Types \ {"void"}

(* The T of the issuing SupportsWeakPtr<T> / WeakPtrFactory<T>: the class  *)
(* of the subjects.  The static_asserts of lines 302, 321 and 360 admit no *)
(* other class.                                                            *)
FactoryType == "D"

(* Class of the object that subject s is *)
DynType(s) == FactoryType

(* std::is_base_of<b, d> *)
IsBaseOf(b, d) ==
  /\ b \in ConcreteTypes
  /\ d \in ConcreteTypes
  /\ (b = d \/ (b = "B" /\ d = "D"))

(* std::weak_ptr<from> converts to std::weak_ptr<to>, which the converting *)
(* constructors, operator= and StaticAsWeakPtr need for ptr_: `to` is      *)
(* `from` or a base of it.  WeakPtr<void> declares no constructor and no   *)
(* operator=: only another WeakPtr<void> converts to it.                   *)
Convertible(from, to) ==
  IF from = "void" \/ to = "void" THEN from = to
  ELSE IsBaseOf(to, from)

(* The subject stored at address a *)
SubjectAt(a) == CHOOSE s \in Subjects : Address(s) = a

(* dynamic_cast<To*>(reinterpret_cast<From*>(ptr)) on the object at        *)
(* address a.  When the object is not a From the cast reads it through a   *)
(* pointer of a foreign type, which is undefined; the builds (-O0 and -O2) *)
(* find no To in it and yield a null pointer.                              *)
DynamicCast(from, to, a) ==
  IF a = Null THEN Null
  ELSE IF ~IsBaseOf(from, DynType(SubjectAt(a))) THEN Null
  ELSE IF IsBaseOf(to, DynType(SubjectAt(a))) THEN a ELSE Null

(* uintptr_cast<From, To> with From and To the same concrete type *)
UintptrCastSame(a) == a

(* uintptr_cast<From, To>(std::uintptr_t): passes the address through when *)
(* either type is void or both are the same, else dynamic_cast.            *)
UintptrCast(from, to, a) ==
  IF from = "void" \/ to = "void" THEN a
  ELSE IF from = to THEN UintptrCastSame(a)
  ELSE DynamicCast(from, to, a)

----------------------------------------------------------------------------
(* WeakPtr<T> *)

(* WeakPtr() = default: an empty handle of static type ty.  ty is the T of *)
(* the WeakPtr<T>; subj, src and gen are history: the subject that issued  *)
(* the handle, whether its factory or its SupportsWeakPtr base did, and    *)
(* how many invalidations the factory had seen.                            *)
NullHandle(ty) ==
  [ptr |-> Null, tok |-> Null, ref |-> Null, raw |-> Null,
   ty |-> ty, subj |-> 0, src |-> "none", gen |-> 0]

(* WeakPtr(std::shared_ptr<T>, std::shared_ptr<ThreadingChecker>,          *)
(*         std::shared_ptr<Flag>) on the shared_ptr of subject s           *)
WeakPtrCtor(s, t, f) ==
  [NullHandle(FactoryType) EXCEPT
     !.ptr = s, !.tok = t, !.ref = f, !.raw = UintptrCastSame(Address(s)),
     !.subj = s]

(* WeakPtr::reset() *)
ResetHandle(hd) ==
  [hd EXCEPT !.tok = Null, !.ptr = Null, !.ref = Null, !.raw = Null,
             !.subj = 0, !.src = "none", !.gen = 0]

(* ptr_.lock().get() *)
PtrLock(hd) == IF hd.ptr # Null /\ owned[hd.ptr] THEN Address(hd.ptr) ELSE Null

(* Variant: the assert is compiled out. *)
AssertPasses_Always(c) == TRUE

(* assert(checker->CalledOnValidSequence()), c the outcome of the check:   *)
(* the header does not define NDEBUG, the process aborts when the check    *)
(* says false.                                                             *)
AssertPasses(c) == c.ok

(* What get() of handle hd hands back on thread q when no other thread     *)
(* runs meanwhile, and what it does to the token: expired()/lock() of      *)
(* threading_checker_, the assert, ptr_.lock().                            *)
GetOutcome(hd, q) ==
  IF Expired(hd.tok)
    THEN [ret |-> Null, ok |-> TRUE, valid |-> Null, checked |-> FALSE]
    ELSE LET c == CalledOnValidSequence(tokens[hd.tok], q)
         IN [ret     |-> IF AssertPasses(c) THEN PtrLock(hd) ELSE Null,
             ok      |-> AssertPasses(c),
             valid   |-> c.valid,
             checked |-> TRUE]

(* WeakPtr<void>::get(): the same checks, then the cached raw_ptr_; ptr_   *)
(* is not locked.                                                          *)
GetOutcomeVoid(hd, q) ==
  IF Expired(hd.tok)
    THEN [ret |-> Null, ok |-> TRUE, valid |-> Null, checked |-> FALSE]
    ELSE LET c == CalledOnValidSequence(tokens[hd.tok], q)
         IN [ret     |-> IF AssertPasses(c) THEN hd.raw ELSE Null,
             ok      |-> AssertPasses(c),
             valid   |-> c.valid,
             checked |-> TRUE]

(* get() is virtual: WeakPtr<void> overrides it. *)
GetVirtual(hd, q) ==
  IF hd.ty = "void" THEN GetOutcomeVoid(hd, q) ELSE GetOutcome(hd, q)

(* The last statement of get(): `return ptr_.lock().get();`, in            *)
(* WeakPtr<void> `return reinterpret_cast<std::uintptr_t *>(raw_ptr_);`    *)
GetResult(hd) == IF hd.ty = "void" THEN hd.raw ELSE PtrLock(hd)

(* template <typename U> WeakPtr(const WeakPtr<U>&) and its && twin, and   *)
(* operator=: ptr_, threading_checker_ and ref_ are copied, raw_ptr_ goes  *)
(* through uintptr_cast<U, T>.  The implicit copy of a WeakPtr<T> into a   *)
(* WeakPtr<T> copies the four members.                                     *)
ConvertCtor(hd, to) ==
  [hd EXCEPT !.ty = to, !.raw = UintptrCast(hd.ty, to, hd.raw)]

(* WeakPtr<T>::StaticAsWeakPtr<B, U>(): the four members copied as they    *)
(* are into a WeakPtr<U>.                                                  *)
StaticAsWeakPtr(hd, to) == [hd EXCEPT !.ty = to]

(* `x.get() == y.get()` on thread q: ret is the comparison, ok that both   *)
(* asserts passed, toks the tokens whose check passed.  The order of the   *)
(* two calls is unspecified; the builds (g++, -O0 and -O2) call x.get()    *)
(* first: its check has passed, and bound an unbound token, when the       *)
(* assert of y.get() fails, and y.get() is not called when the assert of   *)
(* x.get() fails.  The first check does not change what the second says:   *)
(* it writes the token only when it binds it to q.                         *)
EqualGet(x, y, q) ==
  LET ox == GetVirtual(x, q)
      oy == GetVirtual(y, q)
  IN [ret  |-> (ox.ret = oy.ret),
      ok   |-> (ox.ok /\ oy.ok),
      toks |-> {t \in {x.tok} : ~Expired(t) /\ ox.ok}
               \cup {t \in {y.tok} : ~Expired(t) /\ ox.ok /\ oy.ok}]

(* The two texts of the header that the well-formedness of equal() is      *)
(* stated for: "written" is the file as it is, where line 145 declares     *)
(* `bool equal(const WeakPtr<U> &other)`; "const" is the file with that    *)
(* member function declared const and nothing else changed.                *)
Headers == {"written", "const"}

(* `get() == other.get()` (line 147) compares a T* with a U*: one of the   *)
(* two pointer types has to convert to the other.                          *)
Line147Compiles(t, u) == IsBaseOf(t, u) \/ IsBaseOf(u, t)

(* `other.equal(WeakPtr<U>(...))` on the receiver (line 150): the argument *)
(* is built by the converting constructor of lines 110-118, which needs T  *)
(* to convert to U, and equal() is called through `other`, a reference to  *)
(* const, which needs the qualifier that line 145 as written lacks.        *)
Line150Compiles(hdr, t, u) == hdr = "const" /\ Convertible(t, u)

(* The call equal<T> on a WeakPtr<T>, which lines 150 (at type U) and 153  *)
(* (at type T) make: the same body instantiated with both types the same.  *)
(* The copy of the receiver that line 153 builds is always well-formed.    *)
SameTypeCompiles(hdr, t) == Line147Compiles(t, t) /\ Line150Compiles(hdr, t, t)

(* x.equal(y) is accepted by the compiler under header hdr, T and U the    *)
(* static types of x and y.  The tests of lines 146, 149 and 152 are plain *)
(* `if`s, not `if constexpr`: every statement of lines 146-155 is          *)
(* instantiated whatever T and U are, and each has to be well-formed.  A   *)
(* WeakPtr<void> inherits equal() from WeakPtr<std::uintptr_t> and line    *)
(* 147 then compares a std::uintptr_t* with a U*; with a WeakPtr<void>     *)
(* argument the overload of lines 158-163 builds a WeakPtr<void> from the  *)
(* receiver, for which there is no constructor.                            *)
EqualCompilesIn(hdr, t, u) ==
  /\ t \in ConcreteTypes
  /\ u \in ConcreteTypes
  /\ Line147Compiles(t, u)
  /\ Line150Compiles(hdr, t, u)
  /\ SameTypeCompiles(hdr, u)
  /\ SameTypeCompiles(hdr, t)

(* x.equal(y) can be called: the compiler accepts it under the header as   *)
(* written or under the header with equal() declared const.  As written no *)
(* call is accepted; with the qualifier the calls with U the type T or a   *)
(* base of T are.                                                          *)
EqualCompiles(t, u) == {hdr \in Headers : EqualCompilesIn(hdr, t, u)} # {}

(* The value of x.equal(y) on thread q, y of a concrete type U (lines      *)
(* 146-155): same type, U a base of T, T a base of U, unrelated.  With T a *)
(* base of U line 153 hands equal() a copy of the receiver, not `other`.   *)
(* A WeakPtr<void> inherits equal() from WeakPtr<std::uintptr_t>: with T = *)
(* std::uintptr_t no test holds.                                           *)
EqualOutcome(x, y, q) ==
  IF x.ty = "void" THEN [ret |-> FALSE, ok |-> TRUE, toks |-> {}]
  ELSE IF x.ty = y.ty THEN EqualGet(x, y, q)
  ELSE IF IsBaseOf(y.ty, x.ty) THEN EqualGet(y, ConvertCtor(x, y.ty), q)
  ELSE IF IsBaseOf(x.ty, y.ty) THEN EqualGet(x, ConvertCtor(x, x.ty), q)
  ELSE [ret |-> FALSE, ok |-> TRUE, toks |-> {}]

(* `x == y` is accepted by the compiler, T and U the static types of x and *)
(* y.  With the same type it is the member operator== (lines 196-198, in   *)
(* WeakPtr<void> lines 256-258).  With U derived from T it is the member   *)
(* of WeakPtr<T>, y converted to a WeakPtr<T> by the constructor of lines  *)
(* 110-113; the same conversion is chosen and fails to compile when U is   *)
(* not derived from T.  A WeakPtr<void> has no converting constructor, its *)
(* operator== takes no other handle, and the comparison with a handle of   *)
(* a class type is the built-in == of two integers, each operand converted *)
(* by `operator std::uintptr_t()` (line 209).                              *)
OperatorEqCompiles(t, u) ==
  IF t = u THEN TRUE
  ELSE IF t = "void" THEN u \in ConcreteTypes
  ELSE IsBaseOf(t, u)

(* The value of `x == y` on thread q: `return get() == other.get();` on x  *)
(* and y, or on x and the copy of y converted to the type of x; for a      *)
(* WeakPtr<void> and a handle of a class type the two raw_ptr_ are         *)
(* compared and get() is not called.                                       *)
OperatorEqOutcome(x, y, q) ==
  IF x.ty = y.ty THEN EqualGet(x, y, q)
  ELSE IF x.ty = "void" THEN [ret |-> (x.raw = y.raw), ok |-> TRUE, toks |-> {}]
  ELSE EqualGet(x, ConvertCtor(y, x.ty), q)

(* A thread outside get().  h is the handle a get() in progress works on,  *)
(* checker its local `checker`, strict that operator-> or operator* made   *)
(* the call inside its assert; stale, pre and st are history: whether the  *)
(* handle was stale when the call began, and the token's valid_thread_id_  *)
(* and history when the call checked it.                                   *)
Idle == [pc |-> "idle", h |-> 0, checker |-> Null, stale |-> FALSE, strict |-> FALSE,
         pre |-> Null, st |-> "none"]

(* Record of the last operation if it was a get(), an operator->, an       *)
(* operator*, a HasWeakPtrs() or an InvalidateWeakPtrs(): ret is the       *)
(* address get() returned, ok is HasWeakPtrs' result or, for get() and the *)
(* operators, that the assert passed; pre and st are the token's           *)
(* valid_thread_id_ and history when get() checked it; stale says the      *)
(* handle was issued before an InvalidateWeakPtrs() that had returned when *)
(* get() began.                                                            *)
NoOp == [op |-> "none", s |-> 0, q |-> 0, h |-> 0, ret |-> Null, ok |-> TRUE,
         pre |-> Null, st |-> "none", stale |-> FALSE]

(* The handle is of a generation its factory has already invalidated. *)
Stale(hd) == hd.src = "factory" /\ hd.gen < invCount[hd.subj]

----------------------------------------------------------------------------
(* The subject the program of Spec builds *)
MainSubject == CHOOSE s \in Subjects : \A r \in Subjects : s <= r

(* The state after the subjects in S and their factories were constructed  *)
(* on MainSeq (member initializers of lines 347-348 and 382-383); the      *)
(* other subjects are never built.                                         *)
Constructed(S) ==
  /\ owned = [s \in Subjects |-> s \in S]
  /\ factory = [s \in Subjects |->
                  IF s \in S THEN [threading_ |-> TokId(s, 0), ref_ |-> FactoryFlag(s)]
                  ELSE Gone]
  /\ mixin = [s \in Subjects |->
                IF s \in S THEN [threading_ |-> MixinTokId(s), ref_ |-> MixinFlag(s)]
                ELSE Gone]
  /\ tokens = [t \in TokIds |->
                 IF \E s \in S : t \in {TokId(s, 0), MixinTokId(s)}
                   THEN NewToken(MainSeq) ELSE DeadTok]
  /\ invCount = [s \in Subjects |-> 0]
  /\ call = [q \in Seqs |-> Idle]
  /\ aborted = FALSE
  /\ last = NoOp

Init ==
  /\ build \in Builds
  /\ handles = << >>
  /\ Constructed({MainSubject})

(* Thread q can start an operation. *)
Ready(q) == ~aborted /\ call[q].pc = "idle"

(* WeakPtrFactory::GetWeakPtr: shared_from_this() needs a subject that is  *)
(* owned.                                                                  *)
GetWeakPtr(s) ==
  /\ \E q \in Seqs : Ready(q)
  /\ owned[s]
  /\ FactoryAlive(s)
  /\ Len(handles) < MaxHandles
  /\ handles' = Append(handles,
                       [WeakPtrCtor(s, factory[s].threading_, factory[s].ref_)
                          EXCEPT !.src = "factory", !.gen = invCount[s]])
  /\ last' = NoOp
  /\ UNCHANGED <<build, owned, factory, mixin, tokens, invCount, call, aborted>>

(* SupportsWeakPtr::AsWeakPtr, also through AsWeakPtr(Derived* t) with     *)
(* Derived = T: the handle takes the token and the flag of the             *)
(* SupportsWeakPtr base.                                                   *)
AsWeakPtr(s) ==
  /\ \E q \in Seqs : Ready(q)
  /\ owned[s]
  /\ Len(handles) < MaxHandles
  /\ handles' = Append(handles,
                       [WeakPtrCtor(s, mixin[s].threading_, mixin[s].ref_)
                          EXCEPT !.src = "mixin"])
  /\ last' = NoOp
  /\ UNCHANGED <<build, owned, factory, mixin, tokens, invCount, call, aborted>>

(* Variant: InvalidateWeakPtrs leaves ref_ alone. *)
InvalidatedRef_Kept(s) == factory[s].ref_

(* ref_ after InvalidateWeakPtrs: `ref_ = nullptr` *)
InvalidatedRef(s) == Null

(* Variant: InvalidateWeakPtrs leaves threading_ alone. *)
InvalidatedThreading_Kept(s) == factory[s].threading_

(* threading_ after InvalidateWeakPtrs: the std::make_shared<Threading>() *)
InvalidatedThreading(s) == TokId(s, invCount[s] + 1)

(* InvalidateWeakPtrs() calls so far, over all subjects *)
RECURSIVE SumInv(_)
SumInv(S) ==
  IF S = {} THEN 0
  ELSE LET s == CHOOSE x \in S : TRUE IN invCount[s] + SumInv(S \ {s})

Invalidations == SumInv(Subjects)

(* WeakPtrFactory::InvalidateWeakPtrs on thread q *)
InvalidateWeakPtrs(s, q) ==
  /\ Ready(q)
  /\ FactoryAlive(s)
  /\ Invalidations < MaxInvalidates
  /\ LET fac == [factory EXCEPT ![s] = [threading_ |-> InvalidatedThreading(s),
                                         ref_       |-> InvalidatedRef(s)]]
         tk  == [tokens EXCEPT ![TokId(s, invCount[s] + 1)] = NewToken(q)]
     IN /\ factory' = fac
        /\ tokens' = Sweep(tk, fac, mixin, call)
  /\ invCount' = [invCount EXCEPT ![s] = @ + 1]
  /\ last' = [NoOp EXCEPT !.op = "InvalidateWeakPtrs", !.s = s, !.q = q]
  /\ UNCHANGED <<build, owned, mixin, handles, call, aborted>>

(* WeakPtrFactory::HasWeakPtrs *)
HasWeakPtrs(s) ==
  /\ \E q \in Seqs : Ready(q)
  /\ FactoryAlive(s)
  /\ last' = [NoOp EXCEPT !.op = "HasWeakPtrs", !.s = s, !.ok = HasRefs(factory[s].ref_)]
  /\ UNCHANGED <<build, owned, factory, mixin, tokens, handles,
                 invCount, call, aborted>>

(* SupportsWeakPtr::HijackThread: detaches the token of the                *)
(* SupportsWeakPtr base                                                    *)
HijackThread(s) ==
  /\ \E q \in Seqs : Ready(q)
  /\ MixinAlive(s)
  /\ tokens' = [tokens EXCEPT
                  ![mixin[s].threading_] = Touched(DetachFromSequence(@), "detached")]
  /\ last' = NoOp
  /\ UNCHANGED <<build, owned, factory, mixin, handles,
                 invCount, call, aborted>>

(* The last std::shared_ptr owning s lets go: ~T starts.  The members of   *)
(* the SupportsWeakPtr base live until ~T has run.                         *)
BeginDestroy(s) ==
  /\ \E q \in Seqs : Ready(q)
  /\ owned[s]
  /\ owned' = [owned EXCEPT ![s] = FALSE]
  /\ last' = NoOp
  /\ UNCHANGED <<build, factory, mixin, tokens, handles, invCount, call, aborted>>

(* ~SupportsWeakPtr has run: its members threading_ and ref_ are           *)
(* destroyed.                                                              *)
FinishDestroy(s) ==
  /\ \E q \in Seqs : Ready(q)
  /\ ~owned[s]
  /\ MixinAlive(s)
  /\ LET mix == [mixin EXCEPT ![s] = Gone]
     IN /\ mixin' = mix
        /\ tokens' = Sweep(tokens, factory, mix, call)
  /\ last' = NoOp
  /\ UNCHANGED <<build, owned, factory, handles, invCount, call, aborted>>

(* ~WeakPtrFactory: its members threading_ and ref_ are destroyed, with   *)
(* the subject when the factory is a member of it, before or after it     *)
(* when the factory is held outside.                                      *)
DestroyFactory(s) ==
  /\ \E q \in Seqs : Ready(q)
  /\ FactoryAlive(s)
  /\ LET fac == [factory EXCEPT ![s] = Gone]
     IN /\ factory' = fac
        /\ tokens' = Sweep(tokens, fac, mixin, call)
  /\ last' = NoOp
  /\ UNCHANGED <<build, owned, mixin, handles, invCount, call, aborted>>

(* WeakPtr::reset(), on a handle no thread is resolving *)
Reset(h) ==
  /\ \E q \in Seqs : Ready(q)
  /\ h \in 1..Len(handles)
  /\ handles[h] # ResetHandle(handles[h])
  /\ \A q \in Seqs : call[q].h # h
  /\ handles' = [handles EXCEPT ![h] = ResetHandle(@)]
  /\ last' = NoOp
  /\ UNCHANGED <<build, owned, factory, mixin, tokens, invCount, call, aborted>>

(* The operations of factory, subject and handle other than get() *)
Ops ==
  \/ \E s \in Subjects : GetWeakPtr(s)
  \/ \E s \in Subjects : AsWeakPtr(s)
  \/ \E s \in Subjects, q \in Seqs : InvalidateWeakPtrs(s, q)
  \/ \E s \in Subjects : HasWeakPtrs(s)
  \/ \E s \in Subjects : HijackThread(s)
  \/ \E s \in Subjects : BeginDestroy(s)
  \/ \E s \in Subjects : FinishDestroy(s)
  \/ \E s \in Subjects : DestroyFactory(s)
  \/ \E h \in 1..MaxHandles : Reset(h)

----------------------------------------------------------------------------
(* WeakPtr::get() statement by statement: it holds no lock, and other      *)
(* threads run operations of their own between its statements.             *)

(* get() returns `ret` on thread q and its `checker` local is destroyed.   *)
(* A get() called by operator-> or operator* inside                        *)
(* `assert(get() != nullptr)` (strict) aborts on nullptr and else goes on  *)
(* to the `return get();` after the assert.                                *)
GetReturn(q, h, strict, ret, pre, st, stale) ==
  LET cl == [call EXCEPT ![q] =
               IF strict /\ ret # Null
                 THEN [Idle EXCEPT !.pc = "again", !.h = h]
                 ELSE Idle]
  IN /\ call' = cl
     /\ tokens' = Sweep(tokens, factory, mixin, cl)
     /\ aborted' = (strict /\ ret = Null)
     /\ last' = IF strict /\ ret # Null THEN last
                ELSE [op |-> IF strict THEN "strict" ELSE "get",
                      s |-> handles[h].subj, q |-> q, h |-> h,
                      ret |-> ret, ok |-> ~strict, pre |-> pre, st |-> st,
                      stale |-> stale]

(* if (threading_checker_.expired()) return nullptr; *)
GetEnter(q, h, strict) ==
  IF Expired(handles[h].tok)
    THEN GetReturn(q, h, strict, Null, Null, "none", Stale(handles[h]))
    ELSE /\ call' = [call EXCEPT ![q] = [Idle EXCEPT !.pc = "lock", !.h = h,
                                              !.stale = Stale(handles[h]),
                                              !.strict = strict]]
         /\ UNCHANGED <<tokens, aborted, last>>

(* Thread q calls get() on handle h (also through operator T*, operator    *)
(* bool and is_null).                                                      *)
GetBegin(h, q) ==
  /\ Ready(q)
  /\ h \in 1..Len(handles)
  /\ GetEnter(q, h, FALSE)
  /\ UNCHANGED <<build, owned, factory, mixin, handles, invCount>>

(* Thread q calls operator-> or operator* on handle h:                     *)
(* assert(get() != nullptr);                                               *)
StrictBegin(h, q) ==
  /\ Ready(q)
  /\ h \in 1..Len(handles)
  /\ GetEnter(q, h, TRUE)
  /\ UNCHANGED <<build, owned, factory, mixin, handles, invCount>>

(* operator-> and operator* after their assert passed: return get(); *)
StrictAgain(q) ==
  /\ ~aborted
  /\ call[q].pc = "again"
  /\ GetEnter(q, call[q].h, FALSE)
  /\ UNCHANGED <<build, owned, factory, mixin, handles, invCount>>

(* auto checker = threading_checker_.lock(); if (!checker) return nullptr; *)
GetLock(q) ==
  /\ ~aborted
  /\ call[q].pc = "lock"
  /\ LET h == call[q].h
     IN IF Expired(handles[h].tok)
          THEN GetReturn(q, h, call[q].strict, Null, Null, "none", call[q].stale)
          ELSE /\ call' = [call EXCEPT ![q].pc = "check", ![q].checker = handles[h].tok]
               /\ UNCHANGED <<tokens, aborted, last>>
  /\ UNCHANGED <<build, owned, factory, mixin, handles, invCount>>

(* assert(checker->CalledOnValidSequence()); *)
GetCheck(q) ==
  /\ ~aborted
  /\ call[q].pc = "check"
  /\ LET h == call[q].h
         t == call[q].checker
         c == CalledOnValidSequence(tokens[t], q)
     IN IF AssertPasses(c)
          THEN /\ tokens' = [tokens EXCEPT ![t] = Checked(@, c)]
               /\ call' = [call EXCEPT ![q].pc = "deref",
                                       ![q].pre = tokens[t].valid,
                                       ![q].st = tokens[t].st]
               /\ UNCHANGED <<aborted, last>>
          ELSE /\ aborted' = TRUE
               /\ last' = [op |-> "get", s |-> handles[h].subj, q |-> q, h |-> h,
                           ret |-> Null, ok |-> FALSE, pre |-> tokens[t].valid,
                           st |-> tokens[t].st, stale |-> call[q].stale]
               /\ UNCHANGED <<tokens, call>>
  /\ UNCHANGED <<build, owned, factory, mixin, handles, invCount>>

(* return ptr_.lock().get(); *)
GetDeref(q) ==
  /\ ~aborted
  /\ call[q].pc = "deref"
  /\ LET h == call[q].h
         t == call[q].checker
     IN GetReturn(q, h, call[q].strict, GetResult(handles[h]), call[q].pre,
                  call[q].st, call[q].stale)
  /\ UNCHANGED <<build, owned, factory, mixin, handles, invCount>>

(* The statements of a get() in progress *)
GetSteps ==
  \/ \E q \in Seqs : GetLock(q)
  \/ \E q \in Seqs : GetCheck(q)
  \/ \E q \in Seqs : GetDeref(q)
  \/ \E q \in Seqs : StrictAgain(q)

(* The calls a thread can make *)
Calls ==
  \/ Ops
  \/ \E h \in 1..MaxHandles, q \in Seqs : GetBegin(h, q)
  \/ \E h \in 1..MaxHandles, q \in Seqs : StrictBegin(h, q)

Next == Calls \/ GetSteps

(* Threads call and interleave at the statements of get(). *)
Spec == Init /\ [][Next]_vars

(* No get() is in progress. *)
Quiescent == \A q \in Seqs : call[q].pc = "idle"

(* The calls, each begun when no get() is in progress *)
NextSeq ==
  \/ \E s \in Subjects : Quiescent /\ GetWeakPtr(s)
  \/ \E s \in Subjects : Quiescent /\ AsWeakPtr(s)
  \/ \E s \in Subjects, q \in Seqs : Quiescent /\ InvalidateWeakPtrs(s, q)
  \/ \E s \in Subjects : Quiescent /\ HasWeakPtrs(s)
  \/ \E s \in Subjects : Quiescent /\ HijackThread(s)
  \/ \E s \in Subjects : Quiescent /\ BeginDestroy(s)
  \/ \E s \in Subjects : Quiescent /\ FinishDestroy(s)
  \/ \E s \in Subjects : Quiescent /\ DestroyFactory(s)
  \/ \E h \in 1..MaxHandles : Quiescent /\ Reset(h)
  \/ \E h \in 1..MaxHandles, q \in Seqs : Quiescent /\ GetBegin(h, q)
  \/ \E h \in 1..MaxHandles, q \in Seqs : Quiescent /\ StrictBegin(h, q)
  \/ GetSteps

(* Sequential histories: the callers see to it that a call starts only     *)
(* when the call before it has returned, on whichever thread it ran.       *)
SpecSeq == Init /\ [][NextSeq]_vars

----------------------------------------------------------------------------
(* A program with two handle variables of fixed static types that are      *)
(* issued into, copied, moved, cast and compared, in the default build            *)
(* (Threading = ThreadingChecker<void>), every call made by the thread     *)
(* that built the subjects.  The factories are held outside their subjects *)
(* and live to the end of the program.                                     *)

(* The static types of the two handle variables: the same concrete type,   *)
(* ancestor and descendant, unrelated types, concrete and void, both void. *)
VarTypes ==
  {<<"B", "B">>, <<"D", "D">>, <<"B", "D">>, <<"B", "U">>,
   <<"void", "D">>, <<"void", "void">>}

(* The handle variables of the program *)
Vars == {1, 2}

InitHandles ==
  /\ build = "permissive"
  /\ \E tp \in VarTypes : handles = <<NullHandle(tp[1]), NullHandle(tp[2])>>
  /\ Constructed(Subjects)

(* Handle variable d takes the value hd. *)
Store(d, hd) ==
  /\ Ready(MainSeq)
  /\ handles' = [handles EXCEPT ![d] = hd]
  /\ last' = NoOp
  /\ UNCHANGED <<build, owned, factory, mixin, tokens, invCount, call, aborted>>

(* d = factory.GetWeakPtr(), d a WeakPtr<T> of the factory's T or of a     *)
(* base of it: the WeakPtr<T> returned goes through the converting         *)
(* constructor.                                                            *)
GetWeakPtrInto(d, s) ==
  /\ d \in 1..Len(handles)
  /\ owned[s]
  /\ FactoryAlive(s)
  /\ Convertible(FactoryType, handles[d].ty)
  /\ Store(d, ConvertCtor([WeakPtrCtor(s, factory[s].threading_, factory[s].ref_)
                             EXCEPT !.src = "factory", !.gen = invCount[s]],
                          handles[d].ty))

(* d = t->AsWeakPtr() or d = T::AsWeakPtr(t), likewise *)
AsWeakPtrInto(d, s) ==
  /\ d \in 1..Len(handles)
  /\ owned[s]
  /\ Convertible(FactoryType, handles[d].ty)
  /\ Store(d, ConvertCtor([WeakPtrCtor(s, mixin[s].threading_, mixin[s].ref_)
                             EXCEPT !.src = "mixin"],
                          handles[d].ty))

(* d = h: copy or converting construction and operator=.  The types must   *)
(* let ptr_ convert.                                                       *)
Assign(d, h) ==
  /\ d \in 1..Len(handles)
  /\ h \in 1..Len(handles)
  /\ d # h
  /\ Convertible(handles[h].ty, handles[d].ty)
  /\ Store(d, ConvertCtor(handles[h], handles[d].ty))

(* A handle after the implicitly declared move constructor or move         *)
(* assignment took its value into another handle: ref_, threading_checker_ *)
(* and ptr_ are moved out, raw_ptr_, an integer, stays.                    *)
MovedFrom(hd) ==
  [hd EXCEPT !.tok = Null, !.ptr = Null, !.ref = Null,
             !.subj = 0, !.src = "none", !.gen = 0]

(* A handle after `h = std::move(h)`: the implicit move assignment assigns *)
(* each member to itself.  std::shared_ptr's move assignment goes through  *)
(* a temporary and a swap and gives ref_ its value back; std::weak_ptr's   *)
(* takes over the source and then clears it, which empties                 *)
(* threading_checker_ and ptr_; raw_ptr_ stays.                            *)
SelfMoved(hd) ==
  [hd EXCEPT !.tok = Null, !.ptr = Null,
             !.subj = 0, !.src = "none", !.gen = 0]

(* WeakPtr<T> d(std::move(h)) and d = std::move(h), h of the type of d,    *)
(* and h = std::move(h): the class declares no copy or move operation and  *)
(* no destructor, so the implicit move operations exist and are preferred  *)
(* to the templates of lines 110-133 for an rvalue of the same type.  An   *)
(* rvalue of another type goes to the template of lines 115-118, which     *)
(* copies: Assign.                                                         *)
Move(d, h) ==
  /\ Ready(MainSeq)
  /\ d \in 1..Len(handles)
  /\ h \in 1..Len(handles)
  /\ handles[d].ty = handles[h].ty
  /\ handles' = IF d = h
                  THEN [handles EXCEPT ![h] = SelfMoved(handles[h])]
                  ELSE [handles EXCEPT ![d] = handles[h],
                                       ![h] = MovedFrom(handles[h])]
  /\ last' = NoOp
  /\ UNCHANGED <<build, owned, factory, mixin, tokens, invCount, call, aborted>>

(* d = h.StaticAsWeakPtr<B, U>(), U the type of d: the static_asserts want *)
(* class types with a common base B, and `user.ptr_ = ptr_` wants ptr_ to  *)
(* convert.                                                                *)
StaticAs(d, h) ==
  /\ d \in 1..Len(handles)
  /\ h \in 1..Len(handles)
  /\ d # h
  /\ IsBaseOf(handles[d].ty, handles[h].ty)
  /\ Store(d, StaticAsWeakPtr(handles[h], handles[d].ty))

(* A comparison on thread q with outcome e: the checks that passed have    *)
(* written their tokens, also when a later assert aborts the process.      *)
Compared(op, a, b, q, e) ==
  /\ tokens' = [t \in TokIds |->
                  IF t \in e.toks
                    THEN Checked(tokens[t], CalledOnValidSequence(tokens[t], q))
                    ELSE tokens[t]]
  /\ aborted' = ~e.ok
  /\ last' = [op |-> op, a |-> a, b |-> b, q |-> q, ret |-> e.ret, ok |-> e.ok]
  /\ UNCHANGED <<build, owned, factory, mixin, handles, invCount, call>>

(* a.equal(b) *)
Equal(a, b) ==
  /\ Ready(MainSeq)
  /\ a \in 1..Len(handles)
  /\ b \in 1..Len(handles)
  /\ EqualCompiles(handles[a].ty, handles[b].ty)
  /\ Compared("equal", a, b, MainSeq, EqualOutcome(handles[a], handles[b], MainSeq))

(* a == b *)
OperatorEq(a, b) ==
  /\ Ready(MainSeq)
  /\ a \in 1..Len(handles)
  /\ b \in 1..Len(handles)
  /\ OperatorEqCompiles(handles[a].ty, handles[b].ty)
  /\ Compared("==", a, b, MainSeq, OperatorEqOutcome(handles[a], handles[b], MainSeq))

(* The calls of the program, each begun when the get() before it has       *)
(* returned, and the statements of a get() in progress                     *)
NextHandles ==
  \/ \E d \in Vars, s \in Subjects : Quiescent /\ GetWeakPtrInto(d, s)
  \/ \E d \in Vars, s \in Subjects : Quiescent /\ AsWeakPtrInto(d, s)
  \/ \E d, h \in Vars : Quiescent /\ Assign(d, h)
  \/ \E d, h \in Vars : Quiescent /\ Move(d, h)
  \/ \E d, h \in Vars : Quiescent /\ StaticAs(d, h)
  \/ \E h \in Vars : Quiescent /\ Reset(h)
  \/ \E s \in Subjects : Quiescent /\ InvalidateWeakPtrs(s, MainSeq)
  \/ \E s \in Subjects : Quiescent /\ HasWeakPtrs(s)
  \/ \E s \in Subjects : Quiescent /\ BeginDestroy(s)
  \/ \E s \in Subjects : Quiescent /\ FinishDestroy(s)
  \/ \E h \in Vars : Quiescent /\ GetBegin(h, MainSeq)
  \/ \E a, b \in Vars : Quiescent /\ Equal(a, b)
  \/ \E a, b \in Vars : Quiescent /\ OperatorEq(a, b)
  \/ GetLock(MainSeq)
  \/ GetCheck(MainSeq)
  \/ GetDeref(MainSeq)

SpecHandles == InitHandles /\ [][NextHandles]_vars

----------------------------------------------------------------------------
(* ThreadingChecker<std::mutex>::CalledOnValidSequence and                 *)
(* DetachFromSequence statement by statement, called by several threads on *)
(* the token of one SupportsWeakPtr base in the checking build: the        *)
(* threads resolve handles it issued by AsWeakPtr() and call               *)
(* HijackThread().                                                         *)

InitLock == Init /\ build = "checking"

(* The subject whose token the threads call *)
LockSubject == MainSubject
LockToken == mixin[LockSubject].threading_

(* Variant: std::lock_guard does not wait for mutex_. *)
MutexFree_NoLock(t) == TRUE

(* mutex_ of token t is unlocked: std::lock_guard's constructor can return *)
MutexFree(t) == tokens[t].mutex = Null

(* The sequence whose check passed last on the token since it was built or *)
(* detached, Null if none: history kept in `last`.                         *)
Winner == IF last.op \in {"check", "detach"} THEN last.win ELSE Null

(* Thread q inside a call on the token, at statement pc *)
InCall(pc) == [Idle EXCEPT !.pc = pc, !.checker = LockToken]

(* Thread q calls checker->CalledOnValidSequence(). *)
CheckEnter(q) ==
  /\ Ready(q)
  /\ call' = [call EXCEPT ![q] = InCall("cv_lock")]
  /\ UNCHANGED <<build, owned, factory, mixin, tokens, handles, invCount, aborted, last>>

(* Thread q calls threading_->DetachFromSequence(). *)
DetachEnter(q) ==
  /\ Ready(q)
  /\ call' = [call EXCEPT ![q] = InCall("dt_lock")]
  /\ UNCHANGED <<build, owned, factory, mixin, tokens, handles, invCount, aborted, last>>

(* std::lock_guard<T> lock(mutex_): q waits until mutex_ is free and takes *)
(* it.  snap is the token as q found it: history.                          *)
Acquire(q) ==
  /\ call[q].pc \in {"cv_lock", "dt_lock"}
  /\ MutexFree(call[q].checker)
  /\ tokens' = [tokens EXCEPT ![call[q].checker].mutex = q]
  /\ call' = [call EXCEPT ![q] =
                [pc |-> IF call[q].pc = "cv_lock" THEN "cv_test" ELSE "dt_clear",
                 checker |-> call[q].checker,
                 snap |-> tokens[call[q].checker], ok |-> TRUE]]
  /\ UNCHANGED <<build, owned, factory, mixin, handles, invCount, aborted, last>>

(* if (valid_thread_id_ == std::thread::id()) ... else                     *)
(* return valid_thread_id_ == std::this_thread::get_id();                  *)
CheckTest(q) ==
  /\ call[q].pc = "cv_test"
  /\ LET t == call[q].checker
     IN IF tokens[t].valid = Null
          THEN /\ call' = [call EXCEPT ![q].pc = "cv_bind"]
               /\ UNCHANGED tokens
          ELSE /\ call' = [call EXCEPT ![q].pc = "cv_ret",
                                       ![q].ok = (tokens[t].valid = q)]
               /\ tokens' = IF tokens[t].valid = q
                              THEN [tokens EXCEPT ![t] = Touched(@, "checked")]
                              ELSE tokens
  /\ UNCHANGED <<build, owned, factory, mixin, handles, invCount, aborted, last>>

(* valid_thread_id_ = std::this_thread::get_id(); return true; *)
CheckBind(q) ==
  /\ call[q].pc = "cv_bind"
  /\ tokens' = [tokens EXCEPT
                  ![call[q].checker] = Touched([@ EXCEPT !.valid = q], "checked")]
  /\ call' = [call EXCEPT ![q].pc = "cv_ret", ![q].ok = TRUE]
  /\ UNCHANGED <<build, owned, factory, mixin, handles, invCount, aborted, last>>

(* valid_thread_id_ = std::thread::id(); *)
DetachClear(q) ==
  /\ call[q].pc = "dt_clear"
  /\ tokens' = [tokens EXCEPT
                  ![call[q].checker] = Touched([@ EXCEPT !.valid = Null], "detached")]
  /\ call' = [call EXCEPT ![q].pc = "dt_ret"]
  /\ UNCHANGED <<build, owned, factory, mixin, handles, invCount, aborted, last>>

(* ~lock_guard unlocks mutex_ and the call returns.  pre, st and creator   *)
(* are the token's state when q took the lock; prev and win the Winner     *)
(* before and after the call.                                              *)
Release(q) ==
  /\ call[q].pc \in {"cv_ret", "dt_ret"}
  /\ tokens' = [tokens EXCEPT ![call[q].checker].mutex = Null]
  /\ call' = [call EXCEPT ![q] = Idle]
  /\ last' = [op |-> IF call[q].pc = "cv_ret" THEN "check" ELSE "detach",
              q |-> q, ok |-> call[q].ok,
              pre |-> call[q].snap.valid, st |-> call[q].snap.st,
              creator |-> call[q].snap.creator,
              prev |-> Winner,
              win |-> IF call[q].pc = "dt_ret" THEN Null
                      ELSE IF call[q].ok THEN q ELSE Winner]
  /\ UNCHANGED <<build, owned, factory, mixin, handles, invCount, aborted>>

NextLock ==
  \/ \E q \in Seqs : CheckEnter(q)
  \/ \E q \in Seqs : DetachEnter(q)
  \/ \E q \in Seqs : Acquire(q)
  \/ \E q \in Seqs : CheckTest(q)
  \/ \E q \in Seqs : CheckBind(q)
  \/ \E q \in Seqs : DetachClear(q)
  \/ \E q \in Seqs : Release(q)

SpecLock == InitLock /\ [][NextLock]_vars

(* A thread that holds mutex_ runs the statements up to the unlock, and a  *)
(* thread waiting in std::lock_guard's constructor for a mutex_ that is    *)
(* unlocked again and again takes it in the end.                           *)
FairLock ==
  \A q \in Seqs :
    /\ WF_vars(CheckTest(q) \/ CheckBind(q) \/ DetachClear(q) \/ Release(q))
    /\ SF_vars(Acquire(q))

SpecLockFair == SpecLock /\ FairLock

----------------------------------------------------------------------------
TypeOK ==
  /\ build \in Builds
  /\ owned \in [Subjects -> BOOLEAN]
  /\ \A s \in Subjects :
       /\ factory[s].threading_ \in TokIds \cup {Null}
       /\ factory[s].ref_ \in {FactoryFlag(s), Null}
       /\ mixin[s] \in {Gone, [threading_ |-> MixinTokId(s), ref_ |-> MixinFlag(s)]}
       /\ owned[s] => MixinAlive(s)
  /\ Len(handles) <= MaxHandles
  /\ \A h \in 1..Len(handles) :
       /\ handles[h].ty \in Types
       /\ handles[h].tok \in TokIds \cup {Null}
       /\ handles[h].ref \in FlagIds \cup {Null}
  /\ aborted \in BOOLEAN

----------------------------------------------------------------------------
(* Properties of factory, token and get() *)

(* The handles that exist *)
Hs == 1..Len(handles)

(* Handles issued by the factory of subject s since its last               *)
(* InvalidateWeakPtrs() and still held                                     *)
CurGenHandles(s) ==
  {h \in Hs : handles[h].subj = s /\ handles[h].src = "factory"
              /\ handles[h].gen = invCount[s]}

(* Handles issued by the factory of subject s before its last              *)
(* InvalidateWeakPtrs() and still held                                     *)
OldGenHandles(s) ==
  {h \in Hs : handles[h].subj = s /\ handles[h].src = "factory"
              /\ handles[h].gen < invCount[s]}

(* What an issued handle is to resolve to: its subject's address while the *)
(* subject is owned, the issuer exists and InvalidateWeakPtrs() was not    *)
(* called since the issue, else empty.                                     *)
Expected(hd) ==
  IF /\ hd.subj # 0
     /\ owned[hd.subj]
     /\ hd.src = "factory" => (hd.gen = invCount[hd.subj] /\ FactoryAlive(hd.subj))
    THEN Address(hd.subj) ELSE Null

(* Some thread would get an address from handle h. *)
Resolvable(h) == \E q \in Seqs : GetVirtual(handles[h], q).ret # Null

(* A get() of an issued handle has returned. *)
GetReturned == last.op = "get" /\ last.ok /\ handles[last.h].subj # 0

(* Every get() that returns yields the address of the handle's subject     *)
(* while the subject is owned and, for a handle issued by GetWeakPtr(),    *)
(* InvalidateWeakPtrs() was not called since the issue, and empty after    *)
(* either event.                                                           *)
C1_ResolveValue == GetReturned => last.ret = Expected(handles[last.h])

(* When InvalidateWeakPtrs() has returned, no handle its subject issued    *)
(* before, by GetWeakPtr() or by AsWeakPtr(), resolves to an address on    *)
(* any thread.                                                             *)
C1_InvalidateCutsAll ==
  last.op = "InvalidateWeakPtrs"
    => \A h \in Hs : handles[h].subj = last.s => ~Resolvable(h)

(* C1: a handle that no thread can resolve to an address stays so through  *)
(* every later operation: no resurrection. *)
C1_NoResurrection == \A h \in Hs : ~Resolvable(h) => ~Resolvable(h)'

(* C1: get() of a handle issued by GetWeakPtr() or AsWeakPtr() returns the *)
(* subject's address until the subject is destroyed or InvalidateWeakPtrs() *)
(* is called, and empty from then on, for good. *)
C1_Resolve ==
  [](C1_ResolveValue /\ C1_InvalidateCutsAll) /\ [][C1_NoResurrection]_vars

(* C2: at every point of a history of complete operations, a handle issued *)
(* by the factory before its latest InvalidateWeakPtrs() resolves empty on *)
(* every thread, and a handle issued after it resolves to the subject's    *)
(* address on every thread that passes the check, while subject and        *)
(* factory live; a get() that returns yields just that. *)
C2_GenerationAtomic ==
  /\ Quiescent =>
       \A h \in Hs : \A q \in Seqs :
         LET hd == handles[h]
             o  == GetOutcome(hd, q)
         IN hd.src = "factory" =>
              /\ Stale(hd) => o.ret = Null
              /\ (~Stale(hd) /\ o.ok) => o.ret = Expected(hd)
              /\ (~Stale(hd) /\ FactoryAlive(hd.subj)) => o.checked
  /\ (GetReturned /\ handles[last.h].src = "factory")
       => last.ret = Expected(handles[last.h])

(* C2 witness: after the second invalidation of a factory, a handle of the *)
(* first generation and a handle of the second are both still held, and a  *)
(* get() of a handle issued after the second invalidation returned the     *)
(* subject's address. *)
C2_Witness ==
  /\ GetReturned /\ last.ret = Address(last.s)
  /\ invCount[last.s] = 2
  /\ last.h \in CurGenHandles(last.s)
  /\ \E h \in OldGenHandles(last.s) : ~Resolvable(h)

(* C3: once InvalidateWeakPtrs() has returned, a get() that begins         *)
(* afterwards on a handle the factory issued before it returns empty,      *)
(* whatever get() calls other threads had in progress during the           *)
(* invalidation. *)
C3_InvalidateOrdering ==
  (last.op = "get" /\ last.stale /\ handles[last.h].src = "factory")
    => last.ret = Null

(* C4: when no handle of the current generation is held, HasWeakPtrs()     *)
(* returns false. *)
C4_NoHandlesNoRefs ==
  (last.op = "HasWeakPtrs" /\ CurGenHandles(last.s) = {}) => ~last.ok

(* C5: when a handle of the current generation is held, HasWeakPtrs()      *)
(* returns true, in every generation. *)
C5_HandlesHaveRefs ==
  (last.op = "HasWeakPtrs" /\ CurGenHandles(last.s) # {}) => last.ok

(* C6: after InvalidateWeakPtrs() and before a handle of the new           *)
(* generation is held, HasWeakPtrs() returns false, also while handles     *)
(* issued before the invalidation are held. *)
C6_FalseAfterInvalidate ==
  (last.op = "HasWeakPtrs" /\ invCount[last.s] > 0 /\ CurGenHandles(last.s) = {})
    => ~last.ok

(* C6 witness: HasWeakPtrs() returned false after an invalidation while a  *)
(* handle issued before it was still held. *)
C6_Witness ==
  /\ last.op = "HasWeakPtrs" /\ ~last.ok
  /\ invCount[last.s] > 0 /\ CurGenHandles(last.s) = {}
  /\ OldGenHandles(last.s) # {}

(* C7: in a checking build, a get() on a thread other than the one the     *)
(* token is bound to fails its assert: it returns no address, the process  *)
(* aborts, and the token stays bound to the same thread. *)
C7_WrongSequenceAborts ==
  (build = "checking" /\ last.op = "get" /\ last.pre # Null /\ last.pre # last.q)
    => /\ ~last.ok
       /\ aborted
       /\ last.ret = Null
       /\ tokens[handles[last.h].tok].valid = last.pre

(* C7 witness: the token was bound by a get() that passed, and a get() on  *)
(* another thread aborted. *)
C7_Witness ==
  /\ build = "checking" /\ last.op = "get" /\ ~last.ok /\ aborted
  /\ last.st = "checked" /\ last.pre # last.q /\ last.pre \in Seqs

(* C8: in a checking build HijackThread() leaves the token unbound; the    *)
(* first get() after it passes on whichever thread runs it and binds the   *)
(* token to that thread; from then on a get() passes exactly on the bound  *)
(* thread, and the binding does not change. *)
C8_DetachRebinds ==
  build = "checking" =>
    /\ \A t \in TokIds : tokens[t].st = "detached" => tokens[t].valid = Null
    /\ (last.op = "get" /\ last.st = "detached")
         => last.ok /\ tokens[handles[last.h].tok].valid = last.q
    /\ (last.op = "get" /\ last.st = "checked")
         => /\ last.ok <=> (last.pre = last.q)
            /\ tokens[handles[last.h].tok].valid = last.pre

(* C8 witness: after a detach, a get() on a thread other than the one that *)
(* built the subjects passed, returned the address and bound the token. *)
C8_Witness ==
  /\ build = "checking" /\ last.op = "get" /\ last.st = "detached"
  /\ last.ok /\ last.ret = Address(last.s) /\ last.q # MainSeq
  /\ tokens[handles[last.h].tok].valid = last.q

(* C9 as claimed: in a checking build the first get() under a new token    *)
(* passes on any thread and binds the token to it. *)
C9_FreshTokenUnbound ==
  (build = "checking" /\ last.op = "get" /\ last.st = "fresh")
    => last.ok /\ tokens[handles[last.h].tok].valid = last.q

(* C9 amended: in a checking build a token is bound when it is created, to *)
(* the thread that constructed it; the first get() under it passes exactly *)
(* on that thread. *)
C9_FreshTokenBound ==
  build = "checking" =>
    /\ \A t \in TokIds : tokens[t].st = "fresh" => tokens[t].valid = tokens[t].creator
    /\ (last.op = "get" /\ last.st = "fresh")
         => /\ last.pre \in Seqs
            /\ last.ok <=> (last.q = last.pre)

(* C9 witness: the first get() under a token installed by                  *)
(* InvalidateWeakPtrs(), on a thread other than the invalidating one,      *)
(* aborted. *)
C9_Witness ==
  /\ build = "checking" /\ last.op = "get" /\ last.st = "fresh"
  /\ ~last.ok /\ last.q # last.pre
  /\ handles[last.h].src = "factory" /\ handles[last.h].gen > 0

(* C10: in the permissive build no get() fails a check (the only assert    *)
(* that can fail is the one of operator-> and operator* on an empty        *)
(* handle), no token is ever bound, and get() returns on every thread what *)
(* the handle's subject and token alone decide. *)
C10_Permissive ==
  build = "permissive" =>
    /\ aborted => last.op = "strict"
    /\ \A t \in TokIds : tokens[t].valid = Null
    /\ last.op = "get" =>
         /\ last.ok
         /\ last.ret = (IF Expired(handles[last.h].tok) THEN Null
                        ELSE PtrLock(handles[last.h]))
    /\ \A h \in Hs : \A q, r \in Seqs :
         GetOutcome(handles[h], q) = GetOutcome(handles[h], r)

(* C10 witness: after a detach, a thread other than the one that built the *)
(* subjects resolved a handle to its subject's address. *)
C10_Witness ==
  /\ build = "permissive" /\ last.op = "get" /\ last.ret = Address(last.s)
  /\ last.q # MainSeq /\ last.st = "detached"

(* C15 as claimed: in a checking build a get() on a thread other than the  *)
(* one the token is bound to returns empty and the program goes on. *)
C15_WrongSequenceEmpty ==
  (build = "checking" /\ last.op = "get" /\ last.pre # Null /\ last.pre # last.q)
    => (last.ok /\ last.ret = Null /\ ~aborted)

(* C15 amended: in a checking build a get() that reaches the check of a    *)
(* token bound to another thread fails the assert and the process aborts;  *)
(* a get() that returns after the check ran on the thread the token was    *)
(* bound to or bound the token to its thread; a get() that returns without *)
(* the check, on whatever thread, found the token gone and returns empty;  *)
(* and after an abort no operation runs. *)
C15_WrongSequenceFatal ==
  build = "checking" =>
    /\ (last.op = "get" /\ last.ok /\ last.st # "none")
         => /\ last.pre \in {Null, last.q}
            /\ last.ret = Null => PtrLock(handles[last.h]) = Null
    /\ (last.op = "get" /\ last.ok /\ last.st = "none")
         => (last.ret = Null /\ last.pre = Null /\ ~aborted)
    /\ (last.op = "get" /\ ~last.ok) => (aborted /\ last.pre \notin {Null, last.q})
    /\ aborted => (~last.ok /\ last.op \in {"get", "strict"})

(* C15 witness: a get() on the wrong thread aborted on a handle that was   *)
(* live: its subject owned and not invalidated since the issue. *)
C15_Witness ==
  /\ build = "checking" /\ aborted
  /\ last.op = "get" /\ ~last.ok /\ last.pre \in Seqs \ {last.q}
  /\ Expected(handles[last.h]) # Null

----------------------------------------------------------------------------
(* Properties of typed handles, under SpecHandles *)

(* An equal() call has returned; its operands *)
EqualReturned == last.op = "equal" /\ last.ok
EqA == handles[last.a]
EqB == handles[last.b]

(* The static types T and U are different classes, one a base of the other. *)
Ancestry(t, u) == t # u /\ (IsBaseOf(t, u) \/ IsBaseOf(u, t))

(* The static types T and U are two classes neither of which is a base of  *)
(* the other.                                                              *)
Unrelated(t, u) ==
  /\ t \in ConcreteTypes /\ u \in ConcreteTypes
  /\ t # u /\ ~Ancestry(t, u)

(* equal() and operator== between two handles of the same concrete type    *)
(* return whether they resolve to the same address, two handles that       *)
(* resolve to nothing being equal.                                         *)
C11_SameType ==
  (last.op \in {"equal", "=="} /\ last.ok /\ EqA.ty = EqB.ty /\ EqA.ty \in ConcreteTypes)
    => (last.ret <=> (Expected(EqA) = Expected(EqB)))

(* Between two handles of unrelated concrete types equal() can be called   *)
(* and returns false whatever the handles resolve to.                      *)
C11_UnrelatedFalse ==
  \A a, b \in Hs :
    Unrelated(handles[a].ty, handles[b].ty) =>
      /\ EqualCompiles(handles[a].ty, handles[b].ty)
      /\ ~EqualOutcome(handles[a], handles[b], MainSeq).ret

DescendantReceiverEquality ==
  (EqualReturned /\ Ancestry(EqA.ty, EqB.ty))
    => (last.ret <=> (Expected(EqA) = Expected(EqB)))

(* C12: equal() between a handle of an ancestor type and a handle of a     *)
(* descendant type returns whether the two resolve to the same address,    *)
(* whichever of the two is the receiver: when a.equal(b) has returned with *)
(* that value, b.equal(a) can be called too and returns that value. *)
C12_AncestryEquality ==
  (EqualReturned /\ Ancestry(EqA.ty, EqB.ty)) =>
    /\ last.ret <=> (Expected(EqA) = Expected(EqB))
    /\ EqualCompiles(EqB.ty, EqA.ty)
    /\ EqualCompiles(EqB.ty, EqA.ty) =>
         LET e == EqualOutcome(EqB, EqA, last.q)
         IN e.ok => (e.ret <=> (Expected(EqA) = Expected(EqB)))

(* The token and the flag that the issuer of handle hd gave it *)
IssuedTok(hd) ==
  IF hd.src = "factory" THEN TokId(hd.subj, hd.gen) ELSE MixinTokId(hd.subj)
IssuedRef(hd) ==
  IF hd.src = "mixin" THEN MixinFlag(hd.subj)
  ELSE IF hd.gen = 0 THEN FactoryFlag(hd.subj) ELSE Null

(* Handles held under another static type than the issuer's: made by a     *)
(* converting copy or assignment or by StaticAsWeakPtr                     *)
Relabelled == {h \in Hs : handles[h].ty # FactoryType /\ handles[h].subj # 0}

(* Every issued handle, copies and relabelled ones included, carries the   *)
(* subject reference, the token and the flag of the generation it stems    *)
(* from and resolves to the subject's address exactly while that           *)
(* generation is current and the subject owned, whenever the copy was      *)
(* made. *)
C17_SameGeneration ==
  \A h \in Hs :
    handles[h].subj # 0 =>
      /\ handles[h].ptr = handles[h].subj
      /\ handles[h].tok = IssuedTok(handles[h])
      /\ handles[h].ref = IssuedRef(handles[h])
      /\ \A q \in Seqs : GetVirtual(handles[h], q).ret = Expected(handles[h])

(* While a relabelled handle of the factory's current generation is held,  *)
(* HasWeakPtrs() returns true. *)
C17_CountsAsOutstanding ==
  (last.op = "HasWeakPtrs" /\ Relabelled \cap CurGenHandles(last.s) # {}) => last.ok

(* C17: copies and relabelled forms of a handle belong to the generation   *)
(* of the handle they were made from: same token, flag and subject         *)
(* reference, same resolution, cut off by the same InvalidateWeakPtrs() or *)
(* destruction, and counted by HasWeakPtrs(). *)
C17_CopiesShareGeneration == C17_SameGeneration /\ C17_CountsAsOutstanding

(* C18: equal() is symmetric: once a.equal(b) has returned, b.equal(a)     *)
(* can be called and returns the same value; and for every two handles,    *)
(* whatever their static types and states, a.equal(b) can be called        *)
(* exactly when b.equal(a) can. *)
C18_EqualSymmetric ==
  /\ \A a, b \in Hs :
       EqualCompiles(handles[a].ty, handles[b].ty)
         <=> EqualCompiles(handles[b].ty, handles[a].ty)
  /\ EqualReturned =>
       /\ EqualCompiles(EqB.ty, EqA.ty)
       /\ EqualCompiles(EqB.ty, EqA.ty) =>
            LET e == EqualOutcome(EqB, EqA, last.q)
            IN e.ok => (e.ret <=> last.ret)

----------------------------------------------------------------------------
(* Properties of the checker's lock, under SpecLock and SpecLockFair *)

(* Positions of a thread between std::lock_guard's constructor and its     *)
(* destructor                                                              *)
InCritical == {"cv_test", "cv_bind", "cv_ret", "dt_clear", "dt_ret"}

(* Thread q can take the next step of the call it is in. *)
CanStep(q) == ENABLED (CheckTest(q) \/ CheckBind(q) \/ DetachClear(q) \/ Release(q))

(* No two threads succeed in a row: a check that passes follows a detach   *)
(* or a passed check of the same thread. *)
C20_OneWinner == (last.op = "check" /\ last.ok) => last.prev \in {Null, last.q}

(* mutex_ is held exactly by the one thread that is between lock and       *)
(* unlock, it is free when a call has returned, and its holder can always  *)
(* go on to the unlock. *)
C20_LockDiscipline ==
  \A q \in Seqs :
    /\ (tokens[LockToken].mutex = q) <=> (call[q].pc \in InCritical)
    /\ call[q].pc \in InCritical => CanStep(q)

(* C20 as claimed: a check that finds the token fresh or just detached     *)
(* finds it unbound, binds it and succeeds; no two threads succeed without *)
(* a detach between them; the lock is released on return. *)
C20_UnboundFreshOrDetached ==
  /\ (last.op = "check" /\ last.st \in {"fresh", "detached"})
       => (last.ok /\ last.pre = Null)
  /\ C20_OneWinner
  /\ C20_LockDiscipline

(* check() and detach() run under mutex_ as one step: at the end of a      *)
(* check its result and the binding are those of CalledOnValidSequence     *)
(* applied to the token as it was when the lock was taken.  A check that   *)
(* finds the token just detached binds it and succeeds; a check that finds *)
(* it fresh finds it bound to the thread that built it and succeeds on     *)
(* that thread only; no two threads succeed without a detach between them; *)
(* the lock is held by the one thread between lock and unlock.             *)
C20_Atomic ==
  /\ \A q \in Seqs :
       call[q].pc = "cv_ret" =>
         LET c == CalledOnValidSequenceMutex(call[q].snap, q)
         IN /\ call[q].ok = c.ok
            /\ tokens[call[q].checker].valid = c.valid
  /\ (last.op = "check" /\ last.st = "detached") => (last.ok /\ last.pre = Null)
  /\ (last.op = "check" /\ last.st = "fresh")
       => (last.pre = last.creator /\ (last.ok <=> last.q = last.creator))
  /\ C20_OneWinner
  /\ C20_LockDiscipline

(* Every call of the check or of the detach returns: no thread stays in    *)
(* std::lock_guard's constructor or between lock and unlock for ever.      *)
C20_NoCallBlocksForever ==
  \A q \in Seqs : (call[q].pc # "idle") ~> (call[q].pc = "idle")

(* C20 amended: the check is atomic under mutex_, a token is unbound only  *)
(* after a detach and a fresh token is bound to the thread that built it,  *)
(* and the lock is released before the check or the detach returns, so no  *)
(* call blocks for ever. *)
C20_CheckAtomic == []C20_Atomic /\ C20_NoCallBlocksForever

(* C20 witness: two threads called the check on a token that was just      *)
(* detached; one took the lock, found the token unbound and bound it, and  *)
(* the other is still waiting for the lock. *)
C20_Witness ==
  \E q, r \in Seqs :
    /\ q # r
    /\ call[q].pc = "cv_ret" /\ call[q].ok /\ call[q].snap.st = "detached"
    /\ tokens[LockToken].valid = q
    /\ call[r].pc = "cv_lock"

====
